---- MODULE Spec2Model ----
(***************************************************************************)
(* Model of the M-Pesa B2C connector of navari_mpesa_b2c:                  *)
(*   scripts/server/base_classes.py   notifier / observer classes          *)
(*   scripts/server/mpesa_connector.py  MpesaB2CConnector and the callback *)
(*   utils/helpers.py                 save_access_token,                   *)
(*                                    update_integration_request           *)
(* One connector instance, the two document stores it writes (Daraja       *)
(* Access Tokens, Integration Request), the Error Log and the wall clock.  *)
(* Every public operation is one action; the record `last` keeps what the  *)
(* operation of the latest step was given, what it did (its trace of       *)
(* effects, in order) and how it ended.                                    *)
(***************************************************************************)
EXTENDS Integers, Sequences, FiniteSets, TLC

VARIABLES now, tokens, requests, logs, conn, last, inflight

vars == <<now, tokens, requests, logs, conn, last, inflight>>

----------------------------------------------------------------------------
(* Bounds of the model *)

\* the clock runs from 0 to MaxTime
MaxTime == 2
\* the token store holds at most MaxTokens records
MaxTokens == 2
\* the clock advances by at most MaxDrift between two reads inside one call
MaxDrift == 1
\* a connector carries at most MaxObservers observers
MaxObservers == 3

----------------------------------------------------------------------------
(* Values *)

\* Python's None and a present value, for optional fields
None == <<>>
Some(v) == <<v>>

Range(s) == {s[i] : i \in 1..Len(s)}

Settings == {"S1", "S2"}
OCIDs == {"X", "Y"}
TokenValues == {"abc", "def"}

\* request_data: the fields of B2CRequestDefinition the connector reads
ConsumerKeyOf(s) == "key-" \o s
ConsumerSecretOf(s) == "secret-" \o s
RequestData ==
    {[Setting |-> s, OriginatorConversationID |-> o,
      ConsumerKey |-> ConsumerKeyOf(s), ConsumerSecret |-> ConsumerSecretOf(s)] :
        s \in Settings, o \in OCIDs}

\* int(response["expires_in"]): the provider sends the lifetime as text
ExpiresInTexts == {"1", "2"}
int(text) == CASE text = "0" -> 0 [] text = "1" -> 1 [] text = "2" -> 2 [] text = "3" -> 3

\* what requests.get can give authenticate: a response, or an exception
AuthStatuses == {200, 399, 400, 500}
NoResponse == [kind |-> "ConnectionError", status_code |-> 0,
               access_token |-> "", expires_in |-> "0"]
AuthResponses ==
    {[kind |-> "response", status_code |-> st, access_token |-> v, expires_in |-> e] :
        st \in {x \in AuthStatuses : x < 400}, v \in TokenValues, e \in ExpiresInTexts}
    \cup {[kind |-> "response", status_code |-> st, access_token |-> "", expires_in |-> "0"] :
        st \in {x \in AuthStatuses : x >= 400}}
    \cup {NoResponse}

\* what requests.post can give make_b2c_payment_request
AckText == "{\"ConversationID\":\"X\"}"
ErrText == "{\"errorCode\":\"500.003.1001\"}"
PostStatuses == {200, 500}
PostResponses ==
    {[kind |-> "response", status_code |-> st,
      text |-> IF st < 400 THEN AckText ELSE ErrText] : st \in PostStatuses}
    \cup {[kind |-> k, status_code |-> 0, text |-> ""] :
            k \in {"ConnectionError", "ReadTimeout"}}

\* response.json()
json(text) ==
    CASE text = AckText -> [ConversationID |-> "X"]
      [] text = ErrText -> [errorCode |-> "500.003.1001"]

\* the Result envelopes the provider delivers to the callback
ResultKinds ==
    {<<0, "The service request is processed successfully.">>,
     <<1, "Insufficient funds">>,
     <<2001, "The initiator information is invalid.">>}
Results ==
    {[ResultCode |-> k[1], ResultDesc |-> k[2], OriginatorConversationID |-> o] :
        k \in ResultKinds, o \in OCIDs}

\* exceptions, and str(exception)
NoError == [type |-> "None", status_code |-> 0]
HTTPError(st) == [type |-> "HTTPError", status_code |-> st]
ConnectionError == [type |-> "ConnectionError", status_code |-> 0]
str(e) ==
    CASE e.type = "HTTPError" /\ e.status_code < 500 -> "Client Error"
      [] e.type = "HTTPError" /\ e.status_code >= 500 -> "Server Error"
      [] e.type = "ConnectionError" -> "Connection refused"
      [] OTHER -> "None"

\* Integration Request store: a document per name, NoDoc where none exists
NoDoc == [status |-> "-", output |-> None, error |-> None, request_headers |-> None]
Exists(reqs, name) == name \in DOMAIN reqs /\ reqs[name] # NoDoc

\* the status a new Integration Request gets from the store
InitialStatus == "Pending"

----------------------------------------------------------------------------
(* utils/helpers.py *)

\* the world the operations act on, and the result of a (sub)operation
World(t, toks, reqs, lg, c) ==
    [now |-> t, tokens |-> toks, requests |-> reqs, logs |-> lg, conn |-> c]

Returned(w, value, trace) ==
    [w |-> w, raised |-> FALSE, msg |-> "", value |-> value, trace |-> trace]
Raised(w, msg, trace) ==
    [w |-> w, raised |-> TRUE, msg |-> msg, value |-> None, trace |-> trace]

\* the update without `doc.error = error`
update_integration_request_without_error(w, integration_request, status, output, error) ==
    IF integration_request = None \/ ~Exists(w.requests, integration_request[1])
    THEN Raised(w, "DoesNotExistError", <<>>)
    ELSE LET name == integration_request[1]
             doc == [w.requests[name] EXCEPT !.status = status, !.output = output]
         IN  Returned([w EXCEPT !.requests[name] = doc], None,
                      <<"update_integration_request">>)

\* update_integration_request(integration_request, status, output, error):
\* frappe.get_doc raises when no document has that name
update_integration_request(w, integration_request, status, output, error) ==
    IF integration_request = None \/ ~Exists(w.requests, integration_request[1])
    THEN Raised(w, "DoesNotExistError", <<>>)
    ELSE LET name == integration_request[1]
             doc == [w.requests[name] EXCEPT
                        !.status = status, !.error = error, !.output = output]
         IN  Returned([w EXCEPT !.requests[name] = doc], None,
                      <<"update_integration_request">>)

\* how doc.save() and doc.submit() of a new token document can end: both
\* succeed, save raises (nothing is stored), or submit raises after save has
\* stored the document
SaveOutcomes == {"ok", "save_raises", "submit_raises"}

\* the token saved without its setting
save_access_token_unassociated(w, token, expiry_time, fetch_time, associated_setting, saveOutcome) ==
    Returned([w EXCEPT !.tokens = Append(@, [associated_settings |-> "-",
                                              access_token |-> token,
                                              expiry_time |-> expiry_time,
                                              token_fetch_time |-> fetch_time])],
             Some(TRUE), <<"save_access_token">>)

\* save_access_token(token, expiry_time, fetch_time, associated_setting)
save_access_token(w, token, expiry_time, fetch_time, associated_setting, saveOutcome) ==
    LET doc == [associated_settings |-> associated_setting,
                access_token |-> token,
                expiry_time |-> expiry_time,
                token_fetch_time |-> fetch_time]
    IN  CASE saveOutcome = "ok" ->
               Returned([w EXCEPT !.tokens = Append(@, doc)], Some(TRUE),
                        <<"save_access_token">>)
          [] saveOutcome = "submit_raises" ->
               Raised([w EXCEPT !.tokens = Append(@, doc)], "Error Encountered", <<>>)
          [] OTHER ->
               Raised(w, "Error Encountered", <<>>)

----------------------------------------------------------------------------
(* scripts/server/base_classes.py *)

\* frappe.log_error(title=..., message=...): the entry the Error Log gains.
\* The Error Log is kept as the set of its distinct entries; every write is
\* an event of the call's trace.
log_error(title, message) == [title |-> title, message |-> str(message)]

\* the test reversed: the observer acts when no error is set
ErrorIsSetReversed(c) == c.error = NoError

\* `if notifier.error:`
ErrorIsSet(c) == c.error # NoError

\* the observer that throws before it updates the Integration Request
ErrorObserverUpdateThrowsFirst(w) ==
    IF ErrorIsSet(w.conn)
    THEN Raised([w EXCEPT !.logs = @ \cup {log_error("HTTPError", w.conn.error)}],
                str(w.conn.error), <<"log_error", "throw">>)
    ELSE Returned(w, None, <<>>)

\* ErrorObserver.update(notifier)
ErrorObserverUpdate(w) ==
    IF ErrorIsSet(w.conn)
    THEN LET w1 == [w EXCEPT !.logs = @ \cup {log_error("HTTPError", w.conn.error)}]
             u  == update_integration_request(w1, w.conn.integration_request,
                                              "Failed", None, Some(str(w.conn.error)))
         IN  IF u.raised
             THEN Raised(u.w, u.msg, <<"log_error">>)
             ELSE Raised(u.w, str(w.conn.error), <<"log_error">> \o u.trace \o <<"throw">>)
    ELSE Returned(w, None, <<>>)

\* the observers a caller can attach: the built-in one, and subclasses of
\* Observer whose update returns or raises
ObserverKinds == {"ErrorObserver", "QuietObserver", "RaisingObserver"}

ObserverUpdate(kind, w) ==
    LET r == CASE kind = "ErrorObserver" -> ErrorObserverUpdate(w)
               [] kind = "RaisingObserver" -> Raised(w, "ObserverError", <<>>)
               [] OTHER -> Returned(w, None, <<>>)
    IN  [r EXCEPT !.trace = <<"update:" \o kind>> \o @]

\* ConnectorBaseClass.notify(): every observer in turn, from observer i on
RECURSIVE NotifyFrom(_, _)
NotifyFrom(w, i) ==
    IF i > Len(w.conn.observers)
    THEN Returned(w, None, <<>>)
    ELSE LET r == ObserverUpdate(w.conn.observers[i], w)
         IN  IF r.raised
             THEN r
             ELSE LET rest == NotifyFrom(r.w, i + 1)
                  IN  [rest EXCEPT !.trace = r.trace \o @]

\* the loop that ends after its first observer
notifyFirstOnly(w) == ObserverUpdate(w.conn.observers[1], w)

notify(w) == NotifyFrom(w, 1)

\* the observer put in front of the list
attachInFront(w, observer) == [w EXCEPT !.conn.observers = <<observer>> \o @]

\* ConnectorBaseClass.attach(observer)
attach(w, observer) == [w EXCEPT !.conn.observers = Append(@, observer)]

----------------------------------------------------------------------------
(* scripts/server/mpesa_connector.py *)

\* the comparison off by one: a 400 answer taken for a success
AuthSucceededOffByOne(status_code) == status_code <= 400

\* the comparison against 500: a client error taken for a success
AuthSucceededBelowServerError(status_code) == status_code < 500

\* `if r.status_code < 400:`
AuthSucceeded(status_code) == status_code < 400

\* MpesaB2CConnector.authenticate(setting). The call reads the clock twice:
\* t1 is the datetime.now() the expiry is computed from, t2 the one stored
\* as the fetch time.
authenticate(w, setting, r, t1, t2, saveOutcome) ==
    IF r.kind # "response"
    THEN Raised([w EXCEPT !.now = t1], r.kind, <<"auth_get">>)
    ELSE IF AuthSucceeded(r.status_code)
    THEN LET expires_in == t1 + int(r.expires_in)
             fetch_time == t2
             w1 == [w EXCEPT !.now = t2,
                             !.conn.authentication_token = Some(r.access_token),
                             !.conn.expires_in = Some(expires_in)]
             s  == save_access_token(w1, r.access_token, expires_in, fetch_time,
                                     setting, saveOutcome)
         IN  IF s.raised
             THEN Raised(s.w, s.msg, <<"auth_get">>)
             ELSE Returned(s.w,
                           Some([access_token |-> r.access_token,
                                 expires_in |-> expires_in,
                                 fetched_time |-> fetch_time]),
                           <<"auth_get">> \o s.trace)
    ELSE Raised([w EXCEPT !.now = t1],
                "Can't get token with provided Credentials for setting: <b>"
                    \o setting \o "</b>",
                <<"auth_get">>)

\* the expiry comparison reversed: only expired tokens match
TokenMatchesReversed(tok, setting, t) ==
    tok.associated_settings = setting /\ tok.expiry_time < t

\* the filter without the setting: any live token matches
TokenMatchesAnySetting(tok, setting, t) ==
    tok.expiry_time > t

\* the filter that drops a token in its last unit of lifetime
TokenMatchesWithMargin(tok, setting, t) ==
    tok.associated_settings = setting /\ tok.expiry_time > t + 1

\* the filter of the token lookup: associated_settings = setting and
\* expiry_time > datetime.now()
TokenMatches(tok, setting, t) ==
    tok.associated_settings = setting /\ tok.expiry_time > t

\* the names of the token documents frappe.db.get_value can return
ValidTokens(toks, setting, t) ==
    {i \in 1..Len(toks) : TokenMatches(toks[i], setting, t)}

\* get_decrypted_password(DARAJA_ACCESS_TOKENS_DOCTYPE, name, "access_token")
get_decrypted_password(toks, name) == toks[name].access_token

\* the record created without `self.integration_request = ...`
create_request_log_unassigned(w, name, bearer) ==
    IF Exists(w.requests, name)
    THEN Raised(w, "DuplicateEntryError", <<>>)
    ELSE Returned([w EXCEPT !.requests[name] =
                        [status |-> InitialStatus, output |-> None, error |-> None,
                         request_headers |-> Some(bearer)]],
                  Some(name), <<"create_request_log">>)

\* create_request_log(..., name=OriginatorConversationID, request_headers=headers):
\* the insert raises when a document of that name exists
create_request_log(w, name, bearer) ==
    IF Exists(w.requests, name)
    THEN Raised(w, "DuplicateEntryError", <<>>)
    ELSE Returned([w EXCEPT !.requests[name] =
                        [status |-> InitialStatus, output |-> None, error |-> None,
                         request_headers |-> Some(bearer)],
                      !.conn.integration_request = Some(name)],
                  Some(name), <<"create_request_log">>)

\* the except clause without requests.ConnectionError
CaughtHTTPErrorOnly(e) == e.type = "HTTPError"

\* `except (requests.HTTPError, requests.ConnectionError) as e:`
Caught(e) == e.type \in {"HTTPError", "ConnectionError"}

\* response.raise_for_status(), or the exception requests.post raised
ErrorOf(p) ==
    CASE p.kind = "response" /\ p.status_code >= 400 -> HTTPError(p.status_code)
      [] p.kind = "response" -> NoError
      [] OTHER -> [type |-> p.kind, status_code |-> 0]

\* notify() called after the try block, whether or not the POST failed
SubmitAlwaysNotifies(w, p) ==
    LET e == ErrorOf(p)
        n == notify(IF e = NoError THEN w ELSE [w EXCEPT !.conn.error = e])
    IN  IF e # NoError /\ ~Caught(e)
        THEN Raised(w, e.type, <<"post">>)
        ELSE IF n.raised
        THEN Raised(n.w, n.msg, <<"post">> \o n.trace)
        ELSE IF p.kind = "response"
        THEN Returned(n.w, Some(json(p.text)), <<"post">> \o n.trace)
        ELSE Raised(n.w, "UnboundLocalError", <<"post">> \o n.trace)

\* lines 164-178: the POST, raise_for_status, the except clause and the return
Submit(w, p) ==
    LET e == ErrorOf(p)
    IN  IF e = NoError
        THEN Returned(w, Some(json(p.text)), <<"post">>)
        ELSE IF Caught(e)
        THEN LET n == notify([w EXCEPT !.conn.error = e])
             IN  IF n.raised
                 THEN Raised(n.w, n.msg, <<"post">> \o n.trace)
                 ELSE IF p.kind = "response"
                 THEN Returned(n.w, Some(json(p.text)), <<"post">> \o n.trace)
                 ELSE Raised(n.w, "UnboundLocalError", <<"post">> \o n.trace)
        ELSE Raised(w, e.type, <<"post">>)

\* lines 140-178, once self.authentication_token is set
BuildAndSubmit(w, request_data, p) ==
    LET bearer == w.conn.authentication_token[1]
        c == create_request_log(w, request_data.OriginatorConversationID, bearer)
    IN  IF c.raised
        THEN [c EXCEPT !.value = None] @@ [bearer |-> None]
        ELSE LET s == Submit(c.w, p)
             IN  [s EXCEPT !.trace = c.trace \o @] @@ [bearer |-> Some(bearer)]

\* MpesaB2CConnector.make_b2c_payment_request(request_data); `name` is the
\* token document the lookup returns, None when it finds none
make_b2c_payment_request(w, request_data, name, r, t1, t2, saveOutcome, p) ==
    IF name = None
    THEN LET w1 == [w EXCEPT !.conn.app_key = Some(request_data.ConsumerKey),
                             !.conn.app_secret = Some(request_data.ConsumerSecret)]
             a  == authenticate(w1, request_data.Setting, r, t1, t2, saveOutcome)
         IN  IF a.raised
             THEN a @@ [bearer |-> None]
             ELSE LET w2 == [a.w EXCEPT !.conn.authentication_token =
                                            Some(a.value[1].access_token)]
                      b  == BuildAndSubmit(w2, request_data, p)
                  IN  [b EXCEPT !.trace = a.trace \o @]
    ELSE LET w2 == [w EXCEPT !.conn.authentication_token =
                                 Some(get_decrypted_password(w.tokens, name[1]))]
         IN  BuildAndSubmit(w2, request_data, p)

\* the test that takes only the codes below 1000 for failures
IsFailureBelowThousand(result) == result.ResultCode # 0 /\ result.ResultCode < 1000

\* `if result.ResultCode != 0:`
IsFailure(result) == result.ResultCode # 0

\* results_callback_url(Result=result)
results_callback_url(w, result) ==
    IF IsFailure(result)
    THEN update_integration_request(w, Some(result.OriginatorConversationID),
                                    "Failed", Some(result), Some(result.ResultDesc))
    ELSE Returned(w, None, <<>>)

----------------------------------------------------------------------------
(* The latest operation *)

Call(op) ==
    [op |-> op, setting |-> "-", ocid |-> "-", auth |-> None, post |-> None,
     result |-> None, outcome |-> "returned", msg |-> "", value |-> None,
     bearer |-> None, trace |-> <<>>]

\* MpesaB2CConnector(): the connector after construction
NewConnector ==
    [error |-> NoError, integration_request |-> None,
     authentication_token |-> None, expires_in |-> None,
     app_key |-> None, app_secret |-> None,
     observers |-> <<"ErrorObserver">>]

\* the callers whose calls interleave, each with a connector of its own, and
\* a caller that has not called yet
Callers == {"a", "b"}
NoRequest ==
    [Setting |-> "-", OriginatorConversationID |-> "-",
     ConsumerKey |-> "-", ConsumerSecret |-> "-"]
Idle ==
    [pc |-> "idle", request_data |-> NoRequest, conn |-> NewConnector,
     fresh |-> FALSE, outcome |-> "-"]

Init ==
    /\ now = 0
    /\ tokens = <<>>
    /\ requests = [o \in OCIDs |-> NoDoc]
    /\ logs = {}
    /\ conn = NewConnector
    /\ last = Call("init")
    /\ inflight = [c \in Callers |-> Idle]

\* the state as a world, and the step that installs a result
Here == World(now, tokens, requests, logs, conn)

Install(res, call) ==
    /\ res.w.now <= MaxTime
    /\ Len(res.w.tokens) <= MaxTokens
    /\ now' = res.w.now
    /\ tokens' = res.w.tokens
    /\ requests' = res.w.requests
    /\ logs' = res.w.logs
    /\ conn' = res.w.conn
    /\ last' = [call EXCEPT !.outcome = IF res.raised THEN "raised" ELSE "returned",
                            !.msg = res.msg, !.value = res.value, !.trace = res.trace]
    /\ UNCHANGED inflight

\* the wall clock advances
Tick ==
    /\ now < MaxTime
    /\ now' = now + 1
    /\ last' = Call("tick")
    /\ UNCHANGED <<tokens, requests, logs, conn, inflight>>

\* an input the call never reads is fixed, so that it is not enumerated
Unread(read, x, default) == read \/ x = default

\* The inputs a call reads: the clock's advance between the two reads of
\* authenticate and the save's outcome only when a token is saved, the POST's
\* outcome only when the POST is sent. Time that passes before the first read
\* of the clock is a Tick before the call.
Saves(r) == r.kind = "response" /\ AuthSucceeded(r.status_code)
DriftsOf(r, drifts) == IF Saves(r) THEN drifts ELSE {0}
SaveOutcomesOf(r, outcomes) == IF Saves(r) THEN outcomes ELSE {"ok"}
OkResponse == CHOOSE q \in PostResponses : q.status_code = 200

\* a caller calls connector.authenticate(setting); the token endpoint answers
\* with one of `responses`, the clock advances by one of `drifts` between the
\* two reads, the save ends as one of `outcomes`
Authenticate(responses, drifts, outcomes) ==
    \E setting \in Settings, r \in responses :
      \E d1 \in DriftsOf(r, drifts), saveOutcome \in SaveOutcomesOf(r, outcomes) :
        \E res \in {authenticate(Here, setting, r, now, now + d1, saveOutcome)} :
            Install(res, [Call("authenticate") EXCEPT
                            !.setting = setting, !.auth = Some(r)])

\* the call with a token found by the lookup: no input of authenticate is read
MakeWithCachedToken(request_data, name, p) ==
    \E res \in {make_b2c_payment_request(Here, request_data, Some(name), NoResponse,
                                         now, now, "ok", p)} :
        /\ Unread("post" \in Range(res.trace), p, OkResponse)
        /\ Install(res, [Call("make") EXCEPT
                !.setting = request_data.Setting,
                !.ocid = request_data.OriginatorConversationID,
                !.post = IF "post" \in Range(res.trace) THEN Some(p) ELSE None,
                !.bearer = res.bearer])

\* the call with no token found by the lookup
MakeWithFreshToken(request_data, p, responses, drifts, outcomes) ==
    \E r \in responses :
      \E d1 \in DriftsOf(r, drifts), saveOutcome \in SaveOutcomesOf(r, outcomes) :
        \E res \in {make_b2c_payment_request(Here, request_data, None, r,
                                             now, now + d1, saveOutcome, p)} :
            /\ Unread("post" \in Range(res.trace), p, OkResponse)
            /\ Install(res, [Call("make") EXCEPT
                    !.setting = request_data.Setting,
                    !.ocid = request_data.OriginatorConversationID,
                    !.auth = Some(r),
                    !.post = IF "post" \in Range(res.trace) THEN Some(p) ELSE None,
                    !.bearer = res.bearer])

\* a caller calls connector.make_b2c_payment_request(request_data); the
\* payment endpoint answers with one of `posts`
MakeB2CPaymentRequest(responses, drifts, outcomes, posts) ==
    \E request_data \in RequestData, p \in posts \cup {OkResponse} :
        LET valid == ValidTokens(tokens, request_data.Setting, now)
        IN  IF valid = {}
            THEN MakeWithFreshToken(request_data, p, responses, drifts, outcomes)
            ELSE \E name \in valid : MakeWithCachedToken(request_data, name, p)

\* the provider (or anyone: the endpoint is public) calls the callback
ResultsCallbackUrl ==
    \E result \in Results :
        Install(results_callback_url(Here, result),
                [Call("callback") EXCEPT
                    !.ocid = result.OriginatorConversationID,
                    !.result = Some(result)])

\* a caller calls connector.notify()
Notify ==
    Install(notify(Here), Call("notify"))

\* a caller calls connector.attach(observer)
Attach ==
    \E observer \in ObserverKinds :
        /\ Len(conn.observers) < MaxObservers
        /\ Install(Returned(attach(Here, observer), None, <<>>), Call("attach"))

----------------------------------------------------------------------------
(* make_b2c_payment_request of two callers, step by step: the statements of
   one call between which the statements of the other can run *)

\* the world caller c acts on: the shared stores and its own connector
WorldOf(c) == World(now, tokens, requests, logs, inflight[c].conn)

\* caller c's step has result res and leaves the call at pc (at "done" when
\* the step raised)
Step(c, res, pc, fresh) ==
    /\ res.w.now <= MaxTime
    /\ Len(res.w.tokens) <= MaxTokens
    /\ now' = res.w.now
    /\ tokens' = res.w.tokens
    /\ requests' = res.w.requests
    /\ logs' = res.w.logs
    /\ inflight' = [inflight EXCEPT
                      ![c].pc = IF res.raised THEN "done" ELSE pc,
                      ![c].conn = res.w.conn,
                      ![c].fresh = fresh,
                      ![c].outcome = IF res.raised THEN "raised"
                                     ELSE IF pc = "done" THEN "returned" ELSE "-"]
    /\ last' = [Call("step") EXCEPT
                    !.setting = inflight[c].request_data.Setting,
                    !.ocid = inflight[c].request_data.OriginatorConversationID,
                    !.outcome = IF res.raised THEN "raised" ELSE "returned",
                    !.msg = res.msg, !.trace = res.trace]
    /\ UNCHANGED conn

\* the caller builds a connector and calls make_b2c_payment_request(request_data)
Begin(c) ==
    /\ inflight[c].pc = "idle"
    /\ \E request_data \in RequestData :
          inflight' = [inflight EXCEPT ![c].pc = "lookup",
                                       ![c].request_data = request_data]
    /\ last' = Call("begin")
    /\ UNCHANGED <<now, tokens, requests, logs, conn>>

\* lines 115-138: the token lookup and, when it finds a token, its decryption
Lookup(c) ==
    /\ inflight[c].pc = "lookup"
    /\ LET request_data == inflight[c].request_data
           valid == ValidTokens(tokens, request_data.Setting, now)
       IN  IF valid = {}
           THEN Step(c, Returned([WorldOf(c) EXCEPT
                                    !.conn.app_key = Some(request_data.ConsumerKey),
                                    !.conn.app_secret = Some(request_data.ConsumerSecret)],
                                 None, <<>>),
                     "authenticate", TRUE)
           ELSE \E name \in valid :
                  Step(c, Returned([WorldOf(c) EXCEPT !.conn.authentication_token =
                                       Some(get_decrypted_password(tokens, name))],
                                   None, <<>>),
                       "create", FALSE)

\* lines 129-133: self.authenticate(setting) and the token it returns
AuthenticateStep(c, responses) ==
    /\ inflight[c].pc = "authenticate"
    /\ \E r \in responses :
        \E a \in {authenticate(WorldOf(c), inflight[c].request_data.Setting,
                                r, now, now, "ok")} :
            Step(c,
                 IF a.raised THEN a
                 ELSE [a EXCEPT !.w.conn.authentication_token =
                                    Some(a.value[1].access_token)],
                 "create", TRUE)

\* lines 140-162: the payload, the headers and create_request_log
CreateStep(c) ==
    /\ inflight[c].pc = "create"
    /\ Step(c, create_request_log(WorldOf(c),
                                  inflight[c].request_data.OriginatorConversationID,
                                  inflight[c].conn.authentication_token[1]),
            "post", inflight[c].fresh)

\* lines 164-178: the POST and what follows it
PostStep(c, posts) ==
    /\ inflight[c].pc = "post"
    /\ \E p \in posts :
          Step(c, Submit(WorldOf(c), p), "done", inflight[c].fresh)

----------------------------------------------------------------------------
(* Specifications *)

\* the token endpoint's answers that carry a token of `values`, or none
ResponsesWith(statuses, values, lifetimes) ==
    {r \in AuthResponses :
        /\ r.kind = "response" => r.status_code \in statuses
        /\ r.access_token \in values \cup {""}
        /\ r.expires_in \in lifetimes \cup {"0"}}

\* authentication and the clock
NextAuth ==
    \/ Tick
    \/ Authenticate(ResponsesWith(AuthStatuses, {"abc"}, ExpiresInTexts),
                    0..MaxDrift, SaveOutcomes)

SpecAuth == Init /\ [][NextAuth]_vars

\* payment requests against a clock that advances: the lookup of a cached
\* token, which expires one tick after its issue, authentication when it
\* finds none, and a POST that succeeds
NextToken ==
    \/ Tick
    \/ MakeB2CPaymentRequest(ResponsesWith({200, 400}, TokenValues, {"1"}),
                             {0}, {"ok"}, {OkResponse})

SpecToken == Init /\ [][NextToken]_vars

\* payment requests whose POST ends in every way it can, and notify()
NextSubmit ==
    \/ Tick
    \/ MakeB2CPaymentRequest(ResponsesWith({200, 500}, {"abc"}, {"2"}),
                             {0}, {"ok"}, PostResponses)
    \/ Notify

SpecSubmit == Init /\ [][NextSubmit]_vars

\* payment requests and the provider's callbacks
NextCallback ==
    \/ MakeB2CPaymentRequest(ResponsesWith({200}, {"abc"}, {"2"}),
                             {0}, {"ok"}, {q \in PostResponses : q.kind = "response"})
    \/ ResultsCallbackUrl

SpecCallback == Init /\ [][NextCallback]_vars

\* observers attached to a connector that authenticates, submits payment
\* requests whose POST succeeds or fails, and notifies
NextObservers ==
    \/ Attach
    \/ Notify
    \/ Authenticate(ResponsesWith({200, 500}, {"abc"}, {"2"}), {0}, {"ok"})
    \/ MakeB2CPaymentRequest(ResponsesWith({200}, {"abc"}, {"2"}),
                             {0}, {"ok"}, {q \in PostResponses : q.kind = "response"})

SpecObservers == Init /\ [][NextObservers]_vars

\* the writers of an Integration Request: payment requests whose POST
\* succeeds or fails, notify() and the provider's callbacks
NextRecord ==
    \/ MakeB2CPaymentRequest(ResponsesWith({200}, {"abc"}, {"2"}),
                             {0}, {"ok"}, {q \in PostResponses : q.kind = "response"})
    \/ Notify
    \/ ResultsCallbackUrl

SpecRecord == Init /\ [][NextRecord]_vars

\* two callers whose payment requests interleave statement by statement
NextRace ==
    \/ Tick
    \/ \E c \in Callers :
          \/ Begin(c)
          \/ Lookup(c)
          \/ AuthenticateStep(c, ResponsesWith({200, 500}, TokenValues, {"2"}))
          \/ CreateStep(c)
          \/ PostStep(c, {q \in PostResponses : q.kind = "response"})

SpecRace == Init /\ [][NextRace]_vars

\* the token store under sequential payment requests: tokens of every positive
\* lifetime, a clock that advances inside authenticate, submits that fail
\* after the save has stored the token
NextStore ==
    \/ Tick
    \/ MakeB2CPaymentRequest(ResponsesWith({200}, {"abc"}, ExpiresInTexts) \ 
                                {r \in AuthResponses : r.kind = "response" /\ int(r.expires_in) <= 0},
                             {0, MaxDrift}, {"ok", "submit_raises"}, {OkResponse})

SpecStore == Init /\ [][NextStore]_vars

\* payment requests whose authentication is refused or whose token cannot be
\* saved, against a clock that lets tokens expire
NextAbort ==
    \/ Tick
    \/ MakeB2CPaymentRequest(ResponsesWith({200, 400}, {"abc"}, {"1"}),
                             {0}, SaveOutcomes, {OkResponse})

SpecAbort == Init /\ [][NextAbort]_vars

----------------------------------------------------------------------------
(* Claims *)

\* a token of the store that the lookup for setting S must find at time t
Live(tok, S, t) == tok.associated_settings = S /\ tok.expiry_time > t

\* the number of times event ev occurs in a trace
Count(trace, ev) == Cardinality({i \in 1..Len(trace) : trace[i] = ev})

\* C1: a make_b2c_payment_request for a setting that has a stored token
\* expiring later than the current time sends no request to the
\* authentication endpoint, adds no token to the store, and the Bearer token
\* of its POST is the value of a stored live token of that setting.
C1_CachedTokenNoAuthentication ==
    [][(/\ last'.op = "make"
        /\ \E i \in 1..Len(tokens) : Live(tokens[i], last'.setting, now))
       => (/\ Count(last'.trace, "auth_get") = 0
           /\ tokens' = tokens
           /\ Count(last'.trace, "post") = 1 =>
                /\ \E i \in 1..Len(tokens) :
                      /\ Live(tokens[i], last'.setting, now)
                      /\ last'.bearer = Some(tokens[i].access_token)
                /\ requests'[last'.ocid].request_headers = last'.bearer)]_vars

\* C1's case: a call that posted without authenticating, while the store also
\* holds a token of another value
C1_Witness ==
    /\ last.op = "make"
    /\ Count(last.trace, "auth_get") = 0
    /\ Count(last.trace, "post") = 1
    /\ \E i \in 1..Len(tokens) : Some(tokens[i].access_token) # last.bearer

\* C2: a make_b2c_payment_request for a setting that has no stored token, or
\* only tokens whose expiry is not later than the current time, calls the
\* authentication endpoint exactly once, and before the payment POST.
C2_NoLiveTokenAuthenticatesOnce ==
    [][(/\ last'.op = "make"
        /\ \A i \in 1..Len(tokens) : ~Live(tokens[i], last'.setting, now))
       => (/\ Count(last'.trace, "auth_get") = 1
           /\ \A j \in 1..Len(last'.trace) :
                last'.trace[j] = "post" =>
                    \E i \in 1..(j - 1) : last'.trace[i] = "auth_get")]_vars

\* C2's case: a call for a setting whose only stored token had expired, which
\* authenticated and then posted, while another setting's token was live
C2_Witness ==
    /\ last.op = "make"
    /\ Count(last.trace, "auth_get") = 1
    /\ Count(last.trace, "post") = 1
    /\ Len(tokens) = 2
    /\ tokens[1].expiry_time <= tokens[2].token_fetch_time
    /\ tokens[1].associated_settings = last.setting

\* C3: a successful authenticate(setting) persists exactly one new token, for
\* that setting, whose expiry_time is its token_fetch_time plus expires_in,
\* however the clock behaves during the call.
C3_ExpiryIsFetchTimePlusLifetime ==
    [][(last'.op = "authenticate" /\ last'.outcome = "returned")
       => (/\ Len(tokens') = Len(tokens) + 1
           /\ SubSeq(tokens', 1, Len(tokens)) = tokens
           /\ LET tok == tokens'[Len(tokens')]
              IN  /\ tok.associated_settings = last'.setting
                  /\ tok.expiry_time =
                        tok.token_fetch_time + int(last'.auth[1].expires_in))]_vars

\* C4: an authenticate(setting) whose response has status >= 400 raises an
\* error that names the setting, saves no token and returns no value.
C4_FailedAuthenticationRaises ==
    [][(/\ last'.op = "authenticate"
        /\ last'.auth[1].kind = "response"
        /\ last'.auth[1].status_code >= 400)
       => (/\ last'.outcome = "raised"
           /\ last'.msg = "Can't get token with provided Credentials for setting: <b>"
                            \o last'.setting \o "</b>"
           /\ last'.value = None
           /\ tokens' = tokens)]_vars

\* C4's case: a status of 400 answered to authenticate while the store holds
\* a token
C4_Witness ==
    /\ last.op = "authenticate"
    /\ last.auth[1].kind = "response"
    /\ last.auth[1].status_code = 400
    /\ last.outcome = "raised"
    /\ Len(tokens) > 0

\* the POST of the latest call ended in an HTTP error status or a
\* connection-level error
PostFailed(call) ==
    /\ call.op = "make"
    /\ call.post # None
    /\ \/ call.post[1].kind = "response" /\ call.post[1].status_code >= 400
       \/ call.post[1].kind = "ConnectionError"

\* the POST of the latest call returned a success status
PostSucceeded(call) ==
    /\ call.op = "make"
    /\ call.post # None
    /\ call.post[1].kind = "response"
    /\ call.post[1].status_code < 400

\* C5: when the POST of make_b2c_payment_request ends in an HTTP error status
\* or a connection-level error, the connector's error is set to it, the
\* ErrorObserver fires, the Integration Request the call created ends Failed
\* with the stringified error, and the call raises instead of returning.
C5_FailedPostIsRecordedAndRaised ==
    PostFailed(last)
    => /\ conn.error = IF last.post[1].kind = "response"
                       THEN [type |-> "HTTPError", status_code |-> last.post[1].status_code]
                       ELSE [type |-> "ConnectionError", status_code |-> 0]
       /\ Count(last.trace, "update:ErrorObserver") = 1
       /\ Count(last.trace, "create_request_log") = 1
       /\ conn.integration_request = Some(last.ocid)
       /\ requests[last.ocid].status = "Failed"
       /\ requests[last.ocid].error = Some(str(conn.error))
       /\ requests[last.ocid].error \in {Some("Server Error"), Some("Connection refused")}
       /\ last.outcome = "raised"
       /\ last.msg = str(conn.error)
       /\ last.value = None

\* C5's case: a POST that ended in a connection error
C5_Witness ==
    /\ PostFailed(last)
    /\ last.post[1].kind = "ConnectionError"
    /\ requests[last.ocid].status = "Failed"

\* C6: when authentication (if needed) succeeds and the POST returns a success
\* status, make_b2c_payment_request returns the parsed body, and it has
\* created exactly one Integration Request, named by the
\* OriginatorConversationID, which is Pending when the call returns.
C6_SuccessfulPostReturnsBodyAndLeavesPending ==
    [][PostSucceeded(last')
       => (/\ last'.outcome = "returned"
           /\ last'.value = Some([ConversationID |-> "X"])
           /\ Count(last'.trace, "create_request_log") = 1
           /\ ~Exists(requests, last'.ocid)
           /\ Exists(requests', last'.ocid)
           /\ requests'[last'.ocid].status = "Pending"
           /\ \A o \in OCIDs \ {last'.ocid} : requests'[o] = requests[o])]_vars

\* C6's case: a call that returned the body on a connector whose earlier call
\* had failed
C6_Witness ==
    /\ PostSucceeded(last)
    /\ last.outcome = "returned"
    /\ requests[last.ocid].status = "Pending"
    /\ conn.error # NoError

\* the latest operation was a callback with this kind of ResultCode
CallbackWith(call, zero) ==
    /\ call.op = "callback"
    /\ (call.result[1].ResultCode = 0) = zero

\* C7: a callback whose ResultCode is not 0 and whose
\* OriginatorConversationID names an existing Integration Request sets that
\* record to Failed, with the result envelope as output and ResultDesc as
\* error, and changes no other record.
C7_FailureCallbackMarksFailed ==
    [][(CallbackWith(last', FALSE) /\ Exists(requests, last'.ocid))
       => (/\ requests'[last'.ocid].status = "Failed"
           /\ requests'[last'.ocid].output = last'.result
           /\ requests'[last'.ocid].error = Some(last'.result[1].ResultDesc)
           /\ requests'[last'.ocid].request_headers = requests[last'.ocid].request_headers
           /\ \A o \in OCIDs \ {last'.ocid} : requests'[o] = requests[o]
           /\ last'.outcome = "returned")]_vars

\* C7's case: a failure callback for one of two existing records
C7_Witness ==
    /\ CallbackWith(last, FALSE)
    /\ requests[last.ocid].status = "Failed"
    /\ requests[last.ocid].error = Some("Insufficient funds")
    /\ \E o \in OCIDs \ {last.ocid} : requests[o].status = "Pending"

\* C8: a callback whose ResultCode is 0 and whose OriginatorConversationID
\* names an existing Integration Request leaves that record Completed, with
\* the result envelope as output.
C8_SuccessCallbackMarksCompleted ==
    (CallbackWith(last, TRUE) /\ Exists(requests, last.ocid))
    => /\ requests[last.ocid].status = "Completed"
       /\ requests[last.ocid].output = last.result

\* C9: when the callback is invoked twice in a row for the same
\* OriginatorConversationID, once with ResultCode 0 and once with another
\* ResultCode, in either order, the record afterwards is what the second
\* invocation determines.
C9_SecondCallbackWins ==
    [][(/\ last.op = "callback" /\ last'.op = "callback"
        /\ last.ocid = last'.ocid
        /\ Exists(requests, last.ocid)
        /\ (last.result[1].ResultCode = 0) # (last'.result[1].ResultCode = 0))
       => (/\ requests'[last'.ocid].output = last'.result
           /\ requests'[last'.ocid].status =
                IF last'.result[1].ResultCode = 0 THEN "Completed" ELSE "Failed"
           /\ requests'[last'.ocid].error =
                IF last'.result[1].ResultCode = 0
                THEN None ELSE Some(last'.result[1].ResultDesc))]_vars

\* C10: the callback never raises, whatever the ResultCode and the
\* OriginatorConversationID, also when no Integration Request has that name.
C10_CallbackNeverRaises ==
    last.op = "callback" => last.outcome = "returned"

\* C11: every failure of make_b2c_payment_request after its Integration
\* Request was created (HTTP error status, connection failure, timeout of the
\* POST) is logged, recorded on that record as Failed and raised: no failed
\* call leaves its record Pending.
C11_FailedCallNeverLeavesPending ==
    (/\ last.op = "make"
     /\ Count(last.trace, "create_request_log") = 1
     /\ last.outcome = "raised")
    => /\ Count(last.trace, "log_error") = 1
       /\ requests[last.ocid].status = "Failed"
       /\ requests[last.ocid].status # "Pending"

\* the connector carries the built-in observer and no other
OnlyBuiltIn(c) == c.observers = <<"ErrorObserver">>

\* C12: notify() on a connector whose error is unset and which carries only
\* the built-in ErrorObserver writes no log entry, changes no Integration
\* Request and raises nothing, whatever integration_request holds.
C12_NotifyWithoutErrorDoesNothing ==
    [][(last'.op = "notify" /\ conn.error = NoError /\ OnlyBuiltIn(conn))
       => (/\ last'.outcome = "returned"
           /\ Count(last'.trace, "log_error") = 0
           /\ logs' = logs
           /\ requests' = requests
           /\ tokens' = tokens
           /\ conn' = conn)]_vars

C12_Witness ==
    /\ last.op = "notify"
    /\ conn.error = NoError
    /\ OnlyBuiltIn(conn)
    /\ conn.integration_request # None
    /\ last.outcome = "returned"

\* C13: notify() on a connector whose error is set and which carries only the
\* built-in ErrorObserver writes exactly one log entry, sets the Integration
\* Request named by integration_request to Failed with the stringified error
\* as its error, and then raises: the log entry and the update come before
\* the raise.
C13_NotifyWithErrorLogsUpdatesRaises ==
    [][(last'.op = "notify" /\ conn.error # NoError /\ OnlyBuiltIn(conn))
       => (/\ last'.trace = <<"update:ErrorObserver", "log_error",
                              "update_integration_request", "throw">>
           /\ last'.outcome = "raised"
           /\ last'.msg = str(conn.error)
           /\ [title |-> "HTTPError", message |-> str(conn.error)] \in logs'
           /\ logs' \ logs \subseteq {[title |-> "HTTPError", message |-> str(conn.error)]}
           /\ conn.integration_request # None
           /\ \A o \in OCIDs :
                IF conn.integration_request = Some(o)
                THEN /\ requests'[o].status = "Failed"
                     /\ requests'[o].error = Some(str(conn.error))
                ELSE requests'[o] = requests[o])]_vars

C13_Witness ==
    /\ last.op = "notify"
    /\ conn.error # NoError
    /\ OnlyBuiltIn(conn)
    /\ last.outcome = "raised"
    /\ \E o \in OCIDs : conn.integration_request = Some(o) /\ requests[o].status = "Failed"

\* C14: in every state reached by attach, notify, authenticate and
\* make_b2c_payment_request the observer list starts with an ErrorObserver;
\* attach appends exactly one element, duplicates allowed, and no other
\* operation changes the list.
C14_ErrorObserverStaysFirst ==
    /\ Head(conn.observers) = "ErrorObserver"
    /\ [][/\ Len(conn'.observers) >= 1
          /\ conn'.observers[1] = "ErrorObserver"
          /\ IF last'.op = "attach"
             THEN \E k \in ObserverKinds : conn'.observers = Append(conn.observers, k)
             ELSE conn'.observers = conn.observers]_vars

C14_Witness ==
    /\ last.op = "attach"
    /\ Len(conn.observers) = 3
    /\ conn.observers[2] = "ErrorObserver"
    /\ conn.observers[3] = "QuietObserver"

\* the observers a call invoked, in the order of their invocation
Invoked(trace) ==
    LET ups == SelectSeq(trace, LAMBDA e : e \in {"update:" \o k : k \in ObserverKinds})
    IN  [i \in 1..Len(ups) |->
            CHOOSE k \in ObserverKinds : ups[i] = "update:" \o k]

\* an observer whose update raises on a connector with error e
Raises(kind, e) ==
    \/ kind = "RaisingObserver"
    \/ kind = "ErrorObserver" /\ e # NoError

\* C15: the observers one notify() invokes are a prefix of the observer list
\* in attachment order: the whole list when none raises, else the list up to
\* and including the first observer that raises, whose failure propagates.
C15_NotifyInvokesPrefix ==
    [][last'.op = "notify"
       => LET obs == conn.observers
              raisers == {i \in 1..Len(obs) : Raises(obs[i], conn.error)}
              stop == IF raisers = {} THEN Len(obs)
                      ELSE CHOOSE i \in raisers : \A j \in raisers : i <= j
          IN  /\ Invoked(last'.trace) = SubSeq(obs, 1, stop)
              /\ (last'.outcome = "raised") = (raisers # {})]_vars

C15_Witness ==
    /\ last.op = "notify"
    /\ conn.observers = <<"ErrorObserver", "QuietObserver", "RaisingObserver">>
    /\ conn.error = NoError
    /\ last.outcome = "raised"
    /\ Len(Invoked(last.trace)) = 3

\* the number of writes of update_integration_request in a call
Updates(call) == Count(call.trace, "update_integration_request")

\* C16 as stated: an Integration Request is created Pending and then mutated
\* at most once by the transport-failure path and at most once by the
\* callback, also when the callback for its OriginatorConversationID is
\* delivered more than once: a callback for a record that carries the output
\* of an earlier callback writes nothing.
C16_CallbackMutatesAtMostOnce ==
    [][\A o \in OCIDs :
         (/\ last'.op = "callback"
          /\ last'.ocid = o
          /\ Exists(requests, o)
          /\ requests[o].output # None)
         => (Updates(last') = 0 /\ requests'[o] = requests[o])]_vars

\* C16 amended: an Integration Request is created by make_b2c_payment_request,
\* which leaves it Pending or, on a transport failure, mutates it once and
\* never mutates a record of an earlier call; every callback with a non-zero
\* ResultCode for an existing record overwrites its status, output and error,
\* however many callbacks came before; a record changes through nothing but
\* such a callback and the ErrorObserver of a connector whose error is set.
C16_EveryFailureCallbackOverwrites ==
    [][\A o \in OCIDs :
         /\ (~Exists(requests, o) /\ Exists(requests', o))
            => /\ last'.op = "make" /\ last'.ocid = o
               /\ Updates(last') <= 1
               /\ Updates(last') = 0 => requests'[o].status = "Pending"
               /\ Updates(last') = 1 => requests'[o].status = "Failed"
         /\ (/\ Exists(requests, o)
             /\ last'.op = "callback" /\ last'.ocid = o
             /\ last'.result[1].ResultCode # 0)
            => /\ Updates(last') = 1
               /\ requests'[o] = [requests[o] EXCEPT
                                    !.status = "Failed",
                                    !.output = last'.result,
                                    !.error = Some(last'.result[1].ResultDesc)]
         /\ (Exists(requests, o) /\ requests'[o] # requests[o])
            => \/ last'.op = "callback" /\ last'.ocid = o
               \/ /\ last'.op = "notify"
                  /\ conn.error # NoError
                  /\ conn.integration_request = Some(o)]_vars

\* the only record there is was marked Failed by its own call's transport
\* failure and has then been overwritten by a callback
C16_Witness ==
    /\ last.op = "callback"
    /\ last.ocid = "X"
    /\ ~Exists(requests, "Y")
    /\ conn.error # NoError
    /\ conn.integration_request = Some("X")
    /\ requests["X"].status = "Failed"
    /\ requests["X"].output = last.result
    /\ requests["X"].error = Some(last.result[1].ResultDesc)

\* the tokens of setting S that have not expired at time t
LiveTokens(toks, S, t) == {i \in 1..Len(toks) : Live(toks[i], S, t)}

\* C17: when two make_b2c_payment_request calls for one setting interleave
\* with no live token stored, both can pass the lookup before either saves,
\* both authenticate, and the store then holds two live tokens of the
\* setting. Nothing else goes wrong: the token a call's authentication
\* returns is stored for the call's setting and becomes its Bearer token, a
\* call with an OriginatorConversationID of its own creates its own
\* Integration Request with that token in the headers and touches no other
\* record, and the POST's outcome changes no record but the call's own.
C17_RaceOnlyDuplicatesTokens ==
    [][\A c \in Callers :
         LET d == inflight[c].request_data
             S == d.Setting
             id == d.OriginatorConversationID
             bearer == inflight'[c].conn.authentication_token
         IN  /\ (inflight[c].pc = "authenticate" /\ inflight'[c].pc = "create")
                => /\ Len(tokens') = Len(tokens) + 1
                   /\ SubSeq(tokens', 1, Len(tokens)) = tokens
                   /\ tokens'[Len(tokens')].associated_settings = S
                   /\ Some(tokens'[Len(tokens')].access_token) = bearer
                   /\ Live(tokens'[Len(tokens')], S, now')
                   /\ Cardinality(LiveTokens(tokens', S, now'))
                        = Cardinality(LiveTokens(tokens, S, now)) + 1
                   /\ requests' = requests
             /\ (/\ inflight[c].pc = "create" /\ inflight'[c].pc # "create"
                 /\ ~Exists(requests, id))
                => /\ inflight'[c].pc = "post"
                   /\ bearer = inflight[c].conn.authentication_token
                   /\ \E i \in 1..Len(tokens) :
                         /\ tokens[i].associated_settings = S
                         /\ Some(tokens[i].access_token) = bearer
                   /\ Exists(requests', id)
                   /\ requests'[id].request_headers = bearer
                   /\ inflight'[c].conn.integration_request = Some(id)
                   /\ \A o \in OCIDs \ {id} : requests'[o] = requests[o]
                   /\ tokens' = tokens
             /\ (inflight[c].pc = "post" /\ inflight'[c].pc = "done")
                => /\ \A o \in OCIDs \ {id} : requests'[o] = requests[o]
                   /\ requests'[id].request_headers = requests[id].request_headers
                   /\ tokens' = tokens]_vars

\* both callers passed the lookup before either saved: two live tokens of
\* the one setting, and each call's own record with its own token
C17_Witness ==
    LET a == inflight["a"]
        b == inflight["b"]
    IN  /\ a.pc = "done" /\ b.pc = "done"
        /\ a.outcome = "returned" /\ b.outcome = "returned"
        /\ a.fresh /\ b.fresh
        /\ a.request_data.Setting = "S1" /\ b.request_data.Setting = "S1"
        /\ a.request_data.OriginatorConversationID = "X"
        /\ b.request_data.OriginatorConversationID = "Y"
        /\ Cardinality(LiveTokens(tokens, "S1", now)) = 2
        /\ requests["X"].request_headers = a.conn.authentication_token
        /\ requests["Y"].request_headers = b.conn.authentication_token
        /\ a.conn.authentication_token # b.conn.authentication_token

\* C18: in a sequential execution whose tokens are all created by
\* make_b2c_payment_request with a positive expires_in, at every moment at
\* most one token of a setting has not expired, and the store only grows:
\* no token is modified or deleted, an expired one is superseded by a new
\* record.
C18_AtMostOneLiveTokenPerSetting ==
    [][/\ \A S \in Settings : Cardinality(LiveTokens(tokens', S, now')) <= 1
       /\ Len(tokens') >= Len(tokens)
       /\ SubSeq(tokens', 1, Len(tokens)) = tokens]_vars

\* an expired token of a setting, kept, and the live one that superseded it
C18_Witness ==
    /\ last.op = "make"
    /\ Len(tokens) = 2
    /\ tokens[1].associated_settings = "S1"
    /\ tokens[2].associated_settings = "S1"
    /\ ~Live(tokens[1], "S1", now)
    /\ Live(tokens[2], "S1", now)

\* the token endpoint's answer grants no token
Refused(r) == r.kind # "response" \/ r.status_code >= 400

\* C19: when make_b2c_payment_request needs a fresh token and the
\* authentication fails, the call raises before an Integration Request is
\* created and before a POST is sent: the token store and the request store
\* are unchanged and the connector's integration_request keeps its value.
\* The same holds of the request store and of integration_request when the
\* token was granted and its save failed.
C19_FailedAuthenticationAborts ==
    [][(/\ last'.op = "make"
        /\ LiveTokens(tokens, last'.setting, now) = {}
        /\ last'.auth # None)
       => /\ Refused(last'.auth[1])
             => /\ last'.outcome = "raised"
                /\ last'.trace = <<"auth_get">>
                /\ tokens' = tokens
                /\ requests' = requests
                /\ logs' = logs
                /\ conn'.integration_request = conn.integration_request
          /\ last'.msg = "Error Encountered"
             => /\ last'.outcome = "raised"
                /\ last'.trace = <<"auth_get">>
                /\ requests' = requests
                /\ conn'.integration_request = conn.integration_request]_vars

\* a refused authentication on a connector that carries the record of an
\* earlier call, whose token has expired
C19_Witness ==
    /\ last.op = "make"
    /\ last.outcome = "raised"
    /\ last.auth # None
    /\ Refused(last.auth[1])
    /\ last.auth[1].kind = "response"
    /\ last.ocid = "Y"
    /\ conn.integration_request = Some("X")
    /\ Exists(requests, "X")
    /\ ~Exists(requests, "Y")
    /\ Len(tokens) = 1

\* C20: on a connector used for several make_b2c_payment_request calls in
\* sequence, a call whose POST was sent changes no Integration Request but
\* the one it created under its own OriginatorConversationID: a caught
\* transport failure marks that record Failed and no other; and a call whose
\* POST succeeds returns and leaves its record Pending, also when the error
\* of an earlier call is still set on the connector.
C20_CallTouchesOnlyItsOwnRecord ==
    [][(last'.op = "make" /\ last'.post # None)
       => /\ ~Exists(requests, last'.ocid)
          /\ Exists(requests', last'.ocid)
          /\ conn'.integration_request = Some(last'.ocid)
          /\ \A o \in OCIDs \ {last'.ocid} : requests'[o] = requests[o]
          /\ PostFailed(last')
             => /\ last'.outcome = "raised"
                /\ requests'[last'.ocid].status = "Failed"
                /\ conn'.error # NoError
          /\ PostSucceeded(last')
             => /\ last'.outcome = "returned"
                /\ requests'[last'.ocid].status = "Pending"
                /\ conn'.error = conn.error
                /\ logs' = logs]_vars

\* a call that succeeded after an earlier call of the connector failed
C20_Witness ==
    /\ PostSucceeded(last)
    /\ last.outcome = "returned"
    /\ last.ocid = "Y"
    /\ conn.error # NoError
    /\ conn.integration_request = Some("Y")
    /\ requests["Y"].status = "Pending"
    /\ requests["X"].status = "Failed"
    /\ requests["X"].error = Some(str(conn.error))

====
